---- MODULE Spec2Model ----
(***************************************************************************)
(* Byte-level BPE tokenizer of src/model.py (class BPEPunjabiTokenizer):   *)
(* training (train_bpe), encode, decode, save and load.                    *)
(*                                                                         *)
(* A text is a sequence of Unicode code points, a byte string a sequence   *)
(* of integers 0..255.  The dicts whose order the code reads or that the   *)
(* claims order (the pair statistics, the merge table) are sequences of    *)
(* <<key, value>> items in insertion order with unique keys; the           *)
(* vocabulary, only ever read by key and by size, is kept in two parts:    *)
(* the set of the keys k whose value is the one byte <<k>>, and a function *)
(* from every other key to its value.  An attribute that holds None is     *)
(* <<>>, an attribute that holds a value x is <<x>>.                       *)
(***************************************************************************)
EXTENDS Integers, Sequences, FiniteSets, TLC

\* ---------------------------------------------------------------- bounds
MaxCorpusLen == 3
MaxTextLen == 3
MaxMerges == 3

\* ------------------------------------------------------ program constants
BaseVocabSize == 256
ReplacementChar == 65533

\* code points of the texts: 'a' (1 byte) and GURMUKHI LETTER A (3 bytes)
Chars == {97, 2565}

\* sample_size: 0 (as None: no truncation), 1, 2 and the default
SampleSizes == {0, 1, 2, 20000}

\* token lists handed to decode: empty, bytes of well-formed and of
\* ill-formed UTF-8, merged ids, and ids that may be no key of the
\* vocabulary, first, last and in the middle
TokenInputs ==
    {<<>>, <<97>>, <<224>>, <<224, 168, 133>>, <<97, 168>>, <<256>>, <<256, 256>>,
     <<257>>, <<258, 97>>, <<97, 257>>, <<257, 97>>, <<999999>>, <<97, 999999, 97>>}

RECURSIVE SeqsUpTo(_, _)
SeqsUpTo(S, n) ==
    IF n = 0 THEN {<<>>}
    ELSE LET shorter == SeqsUpTo(S, n - 1)
         IN shorter \cup {Append(s, x) : s \in {t \in shorter : Len(t) = n - 1}, x \in S}

Range(s) == {s[k] : k \in DOMAIN s}

Min(S) == CHOOSE x \in S : \A y \in S : x <= y

\* the slice s[:n], n >= 0
Prefix(s, n) == SubSeq(s, 1, IF n < Len(s) THEN n ELSE Len(s))

\* ------------------------------------------------------------ Python dict
DictKeys(d) == {d[k][1] : k \in DOMAIN d}

DictHas(d, key) == \E k \in DOMAIN d : d[k][1] = key

DictGet(d, key) == d[CHOOSE k \in DOMAIN d : d[k][1] = key][2]

DictPut(d, key, value) ==
    IF DictHas(d, key)
    THEN [k \in DOMAIN d |-> IF d[k][1] = key THEN <<key, value>> ELSE d[k]]
    ELSE Append(d, <<key, value>>)

\* ------------------------------------------------------------------ UTF-8
\* str.encode('utf-8') of one code point
EncodeChar(c) ==
    IF c < 128 THEN <<c>>
    ELSE IF c < 2048 THEN <<192 + (c \div 64), 128 + (c % 64)>>
    ELSE IF c < 65536
         THEN <<224 + (c \div 4096), 128 + ((c \div 64) % 64), 128 + (c % 64)>>
    ELSE <<240 + (c \div 262144), 128 + ((c \div 4096) % 64),
           128 + ((c \div 64) % 64), 128 + (c % 64)>>

RECURSIVE Utf8Encode(_)
Utf8Encode(text) ==
    IF text = <<>> THEN <<>>
    ELSE EncodeChar(Head(text)) \o Utf8Encode(Tail(text))

IsCont(b) == b >= 128 /\ b <= 191

\* bytes.decode('utf-8', errors='replace'): every maximal ill-formed
\* subsequence becomes one U+FFFD
RECURSIVE Utf8Decode(_)
Utf8Decode(bs) ==
    IF bs = <<>> THEN <<>>
    ELSE
      LET n == Len(bs)
          b0 == bs[1]
          rest(k) == Utf8Decode(SubSeq(bs, k + 1, n))
          bad(k) == <<ReplacementChar>> \o rest(k)
      IN
      IF b0 < 128 THEN <<b0>> \o rest(1)
      ELSE IF b0 >= 194 /\ b0 <= 223 THEN
        IF n >= 2 /\ IsCont(bs[2])
        THEN <<(b0 - 192) * 64 + (bs[2] - 128)>> \o rest(2)
        ELSE bad(1)
      ELSE IF b0 >= 224 /\ b0 <= 239 THEN
        LET lo == IF b0 = 224 THEN 160 ELSE 128
            hi == IF b0 = 237 THEN 159 ELSE 191
        IN IF ~(n >= 2 /\ bs[2] >= lo /\ bs[2] <= hi) THEN bad(1)
           ELSE IF ~(n >= 3 /\ IsCont(bs[3])) THEN bad(2)
           ELSE <<(b0 - 224) * 4096 + (bs[2] - 128) * 64 + (bs[3] - 128)>> \o rest(3)
      ELSE IF b0 >= 240 /\ b0 <= 244 THEN
        LET lo == IF b0 = 240 THEN 144 ELSE 128
            hi == IF b0 = 244 THEN 143 ELSE 191
        IN IF ~(n >= 2 /\ bs[2] >= lo /\ bs[2] <= hi) THEN bad(1)
           ELSE IF ~(n >= 3 /\ IsCont(bs[3])) THEN bad(2)
           ELSE IF ~(n >= 4 /\ IsCont(bs[4])) THEN bad(3)
           ELSE <<(b0 - 240) * 262144 + (bs[2] - 128) * 4096
                  + (bs[3] - 128) * 64 + (bs[4] - 128)>> \o rest(4)
      ELSE bad(1)

\* ------------------------------------------------------ get_stats, merge
\* the loop of get_stats from pair k on, counts being the dict so far
RECURSIVE StatsFrom(_, _, _)
StatsFrom(ids, k, counts) ==
    IF k >= Len(ids) THEN counts
    ELSE LET pair == <<ids[k], ids[k + 1]>>
             old == IF DictHas(counts, pair) THEN DictGet(counts, pair) ELSE 0
         IN StatsFrom(ids, k + 1, DictPut(counts, pair, old + 1))

get_stats(ids) == StatsFrom(ids, 1, <<>>)

\* the loop of merge from position i on
RECURSIVE MergeFrom(_, _, _, _)
MergeFrom(ids, pair, idx, i) ==
    IF i > Len(ids) THEN <<>>
    ELSE IF i < Len(ids) /\ ids[i] = pair[1] /\ ids[i + 1] = pair[2]
         THEN <<idx>> \o MergeFrom(ids, pair, idx, i + 2)
         ELSE <<ids[i]>> \o MergeFrom(ids, pair, idx, i + 1)

\* a merge that goes on at the second element of the pair it has replaced
RECURSIVE MergeFromSecond(_, _, _, _)
MergeFromSecond(ids, pair, idx, i) ==
    IF i > Len(ids) THEN <<>>
    ELSE IF i < Len(ids) /\ ids[i] = pair[1] /\ ids[i + 1] = pair[2]
         THEN <<idx>> \o MergeFromSecond(ids, pair, idx, i + 1)
         ELSE <<ids[i]>> \o MergeFromSecond(ids, pair, idx, i + 1)

merge_overlapping(ids, pair, idx) == MergeFromSecond(ids, pair, idx, 1)

merge(ids, pair, idx) == MergeFrom(ids, pair, idx, 1)

\* a maximum that keeps the last key of maximum count
MaxPair_lastTie(stats) ==
    LET best == {k \in DOMAIN stats : \A j \in DOMAIN stats : stats[j][2] <= stats[k][2]}
    IN stats[CHOOSE k \in best : \A j \in best : j <= k][1]

\* max(stats, key=stats.get): the first key, in the dict's order, of
\* maximum count
MaxPair(stats) ==
    stats[Min({k \in DOMAIN stats : \A j \in DOMAIN stats : stats[j][2] <= stats[k][2]})][1]

\* a minimum that takes the first key of stats that is a key of merges
MinPair_firstKnown(stats, merges) ==
    LET known == {k \in DOMAIN stats : DictHas(merges, stats[k][1])}
    IN IF known = {} THEN stats[1][1] ELSE stats[Min(known)][1]

\* min(stats, key=lambda p: merges.get(p, float("inf"))): the first key, in
\* the dict's order, of minimum merges.get(p, inf); inf is the rank of every
\* key when none is a key of merges
MinPair(stats, merges) ==
    LET known == {k \in DOMAIN stats : DictHas(merges, stats[k][1])}
        rank(k) == DictGet(merges, stats[k][1])
    IN IF known = {} THEN stats[1][1]
       ELSE stats[Min({k \in known : \A j \in known : rank(k) <= rank(j)})][1]

\* ------------------------------------------------- encode, decode (pure)
\* the while loop of encode
\* a loop that is left after its first merge
EncodeLoop_single(merges, toks) ==
    IF Len(toks) < 2 THEN toks
    ELSE LET pair == MinPair(get_stats(toks), merges)
         IN IF ~DictHas(merges, pair) THEN toks
            ELSE merge(toks, pair, DictGet(merges, pair))

RECURSIVE EncodeLoop(_, _)
EncodeLoop(merges, toks) ==
    IF Len(toks) < 2 THEN toks
    ELSE LET pair == MinPair(get_stats(toks), merges)
         IN IF ~DictHas(merges, pair) THEN toks
            ELSE EncodeLoop(merges, merge(toks, pair, DictGet(merges, pair)))

\* the token sequences the while loop of encode goes through, the one it
\* starts from first and the one it returns last
RECURSIVE EncodeTrace(_, _)
EncodeTrace(merges, toks) ==
    IF Len(toks) < 2 THEN <<toks>>
    ELSE LET pair == MinPair(get_stats(toks), merges)
         IN IF ~DictHas(merges, pair) THEN <<toks>>
            ELSE <<toks>> \o EncodeTrace(merges, merge(toks, pair, DictGet(merges, pair)))

\* ------------------------------------------------------------- vocabulary
\* the keys of a vocabulary
VocabKeys(v) == v.single \cup DOMAIN v.other

\* len(vocab)
VocabLen(v) == Cardinality(v.single) + Cardinality(DOMAIN v.other)

\* vocab[key], key being a key
VocabGet(v, key) == IF key \in v.single THEN <<key>> ELSE v.other[key]

\* vocab[key] = value
VocabPut(v, key, value) ==
    IF value = <<key>>
    THEN [single |-> IF key \in v.single THEN v.single ELSE v.single \cup {key},
          other |-> [k \in (DOMAIN v.other) \ {key} |-> v.other[k]]]
    ELSE [single |-> IF key \in v.single THEN v.single \ {key} ELSE v.single,
          other |-> [k \in (DOMAIN v.other) \cup {key} |->
                       IF k = key THEN value ELSE v.other[k]]]

\* {idx: bytes([idx]) for idx in range(256)}
BaseVocab == [single |-> 0..(BaseVocabSize - 1), other |-> <<>>]

\* b"".join(vocab[idx] for idx in tokens), all ids being keys of vocab
RECURSIVE JoinBytes(_, _)
JoinBytes(vocab, toks) ==
    IF toks = <<>> THEN <<>>
    ELSE VocabGet(vocab, Head(toks)) \o JoinBytes(vocab, Tail(toks))

None == <<>>
Some(x) == <<x>>

\* encode: the exception raised or the ids returned
encode(vocab, merges, text) ==
    IF vocab = None \/ merges = None
    THEN [outcome |-> "ValueError", ret |-> <<>>]
    ELSE [outcome |-> "ok", ret |-> Some(EncodeLoop(merges[1], Utf8Encode(text)))]

\* a decode that leaves out the ids it does not know
decode_lenient(vocab, toks) ==
    IF vocab = None
    THEN [outcome |-> "ValueError", ret |-> <<>>]
    ELSE [outcome |-> "ok",
          ret |-> Some(Utf8Decode(JoinBytes(vocab[1],
                         SelectSeq(toks, LAMBDA t : t \in VocabKeys(vocab[1])))))]

\* decode: the exception raised or the text returned
decode(vocab, toks) ==
    IF vocab = None
    THEN [outcome |-> "ValueError", ret |-> <<>>]
    ELSE IF \E k \in DOMAIN toks : toks[k] \notin VocabKeys(vocab[1])
    THEN [outcome |-> "KeyError", ret |-> <<>>]
    ELSE [outcome |-> "ok", ret |-> Some(Utf8Decode(JoinBytes(vocab[1], toks)))]


\* ---------------------------------------------------------------- pickle
\* the elements of a finite set of integers in ascending order
RECURSIVE SortedSeq(_)
SortedSeq(S) ==
    IF S = {} THEN <<>> ELSE <<Min(S)>> \o SortedSeq(S \ {Min(S)})

\* the items a pickled dict is written as
ItemsOf(f) ==
    LET keys == SortedSeq(DOMAIN f)
    IN [k \in 1..Len(keys) |-> <<keys[k], f[keys[k]]>>]

\* a dict is unpickled by setting its items one after the other
RECURSIVE VocabFromItems(_, _)
VocabFromItems(items, v) ==
    IF items = <<>> THEN v
    ELSE VocabFromItems(Tail(items), VocabPut(v, Head(items)[1], Head(items)[2]))

RECURSIVE DictFromItems(_, _)
DictFromItems(items, d) ==
    IF items = <<>> THEN d
    ELSE DictFromItems(Tail(items), DictPut(d, Head(items)[1], Head(items)[2]))

\* a dump that writes an empty merge table
PickleDump_emptyMerges(vocab, merges) ==
    [kind |-> "pickle",
     vocab |-> [single |-> vocab.single, items |-> ItemsOf(vocab.other)],
     merges |-> <<>>]

\* pickle.dump of state = {'vocab': self.vocab, 'merges': self.merges}: the
\* two dicts as their items
PickleDump(vocab, merges) ==
    [kind |-> "pickle",
     vocab |-> [single |-> vocab.single, items |-> ItemsOf(vocab.other)],
     merges |-> merges]

\* pickle.load of an artifact that holds a pickle: the two dicts rebuilt
\* from their items
PickleLoad(artifact) ==
    [vocab |-> VocabFromItems(artifact.vocab.items,
                              [single |-> artifact.vocab.single, other |-> <<>>]),
     merges |-> DictFromItems(artifact.merges, <<>>)]

\* a save that makes the directory before it looks at the tokenizer
save_mkdir_first(vocab, merges, dir, artifact) ==
    IF vocab = None \/ merges = None
    THEN [outcome |-> "ValueError", dir_exists |-> TRUE, file |-> artifact]
    ELSE [outcome |-> "ok", dir_exists |-> TRUE, file |-> PickleDump(vocab[1], merges[1])]

\* save: the exception raised, and the directory and the file it leaves
save(vocab, merges, dir, artifact) ==
    IF vocab = None \/ merges = None
    THEN [outcome |-> "ValueError", dir_exists |-> dir, file |-> artifact]
    ELSE [outcome |-> "ok", dir_exists |-> TRUE, file |-> PickleDump(vocab[1], merges[1])]

\* ------------------------------------------------------------------ state
VARIABLES
    pc,              \* where the tracked tokenizer instance is in its life
    corpus,          \* train_bpe: corpus after truncation
    max_vocab_size,  \* train_bpe: max_vocab_size
    num_merges,      \* train_bpe: num_merges
    tokens,          \* train_bpe: tokens, the bytes of the corpus
    ids,             \* train_bpe: ids, the working sequence
    i,               \* train_bpe: iterations of the merge loop completed
    vocab,           \* self.vocab
    merges,          \* self.merges
    dir_exists,      \* the save directory exists
    file,            \* the artifact file in the save directory
    op,              \* the last operation called
    arg,             \* its argument
    outcome,         \* "ok", or the exception it raised
    ret              \* <<value>> it returned, <<>> when it returned nothing

vars == <<pc, corpus, max_vocab_size, num_merges, tokens, ids, i, vocab, merges,
          dir_exists, file, op, arg, outcome, ret>>

trainVars == <<corpus, max_vocab_size, num_merges, tokens, ids, i>>
fsVars == <<dir_exists, file>>

Texts == SeqsUpTo(Chars, MaxTextLen)
Corpora == SeqsUpTo(Chars, MaxCorpusLen)
VocabSizes == (BaseVocabSize - 1)..(BaseVocabSize + MaxMerges)

FileAbsent == [kind |-> "absent"]
FileGarbage == [kind |-> "garbage"]
\* artifacts written by something other than save
DanglingIdArtifact ==
    [kind |-> "pickle", vocab |-> [single |-> 0..(BaseVocabSize - 1), items |-> <<>>],
     merges |-> << <<<<97, 97>>, 258>> >>]
WrongBytesArtifact ==
    [kind |-> "pickle",
     vocab |-> [single |-> 0..(BaseVocabSize - 1), items |-> << <<256, <<97>>>> >>],
     merges |-> << <<<<97, 97>>, 256>> >>]
MissingByteArtifact ==
    [kind |-> "pickle", vocab |-> [single |-> 0..(BaseVocabSize - 2), items |-> <<>>],
     merges |-> <<>>]
\* a table whose first merge joins the last byte of a character to the
\* first byte of the next one
ForeignArtifact ==
    [kind |-> "pickle",
     vocab |-> [single |-> 0..(BaseVocabSize - 1),
                items |-> << <<256, <<133, 224>>>>, <<257, <<224, 168>>>> >>],
     merges |-> << <<<<133, 224>>, 256>>, <<<<224, 168>>, 257>> >>]
InitialFiles ==
    {FileAbsent, FileGarbage, DanglingIdArtifact, WrongBytesArtifact, MissingByteArtifact,
     ForeignArtifact}

Init ==
    /\ pc = "start"
    /\ corpus = <<>>
    /\ max_vocab_size = 0
    /\ num_merges = 0
    /\ tokens = <<>>
    /\ ids = <<>>
    /\ i = 0
    /\ vocab = None
    /\ merges = None
    /\ file \in InitialFiles
    /\ dir_exists = (file.kind # "absent")
    /\ op = "none"
    /\ arg = <<>>
    /\ outcome = "ok"
    /\ ret = <<>>

\* ---------------------------------------------------------------- training
\* __init__ in training mode up to the merge loop of train_bpe
Construct(text, V, sample_size) ==
    /\ pc = "start"
    /\ LET c == IF sample_size # 0 THEN Prefix(text, sample_size) ELSE text
       IN /\ corpus' = c
          /\ tokens' = Utf8Encode(c)
          /\ ids' = Utf8Encode(c)
    /\ max_vocab_size' = V
    /\ vocab' = Some(BaseVocab)
    /\ num_merges' = V - VocabLen(BaseVocab)
    /\ merges' = Some(<<>>)
    /\ i' = 0
    /\ pc' = "training"
    /\ op' = "train"
    /\ arg' = text
    /\ outcome' = "running"
    /\ ret' = <<>>
    /\ UNCHANGED fsVars

\* an id that is the index of the last entry of the vocabulary
NextId_lastKey == VocabLen(vocab[1]) - 1

\* an id that does not move with the iteration
NextId_const == VocabLen(BaseVocab)

\* idx, the id given to the merge of iteration i
NextId == VocabLen(vocab[1]) + i

\* a merge loop that runs once more than range(num_merges)
LoopContinues_offByOne == i <= num_merges /\ get_stats(ids) # <<>>

\* the merge loop enters its next iteration and does not break
LoopContinues == i < num_merges /\ get_stats(ids) # <<>>

\* the expansions joined the wrong way round
MergedBytes_swapped(v, pair) == VocabGet(v, pair[2]) \o VocabGet(v, pair[1])

\* the byte expansion of a merged pair
MergedBytes(v, pair) == VocabGet(v, pair[1]) \o VocabGet(v, pair[2])

\* one iteration of the merge loop
TrainIter ==
    /\ pc = "training"
    /\ LoopContinues
    /\ LET pair == MaxPair(get_stats(ids))
           idx == NextId
       IN /\ ids' = merge(ids, pair, idx)
          /\ merges' = Some(DictPut(merges[1], pair, idx))
          /\ vocab' = Some(VocabPut(vocab[1], idx, MergedBytes(vocab[1], pair)))
    /\ i' = i + 1
    /\ UNCHANGED <<pc, corpus, max_vocab_size, num_merges, tokens, fsVars,
                   op, arg, outcome, ret>>

\* the loop is over: the compression ratio is printed and the state returned
TrainEnd ==
    /\ pc = "training"
    /\ ~LoopContinues
    /\ IF Len(ids) = 0
       THEN /\ pc' = "failed"
            /\ outcome' = "ZeroDivisionError"
            /\ ret' = <<>>
       ELSE /\ pc' = "trained"
            /\ outcome' = "ok"
            /\ ret' = Some("vocab, merges")
    /\ UNCHANGED <<trainVars, vocab, merges, fsVars, op, arg>>

\* __init__ in inference mode
NewTokenizer ==
    /\ pc = "start"
    /\ vocab' = None
    /\ merges' = None
    /\ pc' = "untrained"
    /\ op' = "new"
    /\ arg' = <<>>
    /\ outcome' = "ok"
    /\ ret' = <<>>
    /\ UNCHANGED <<trainVars, fsVars>>

\* --------------------------------------------------------------- inference
HasInstance == pc \in {"untrained", "trained", "loaded"}

Encode(text) ==
    /\ HasInstance
    /\ op' = "encode"
    /\ arg' = text
    /\ LET result == encode(vocab, merges, text)
       IN /\ outcome' = result.outcome
          /\ ret' = result.ret
    /\ UNCHANGED <<pc, trainVars, vocab, merges, fsVars>>

\* a decode that enters the ids it does not know into the vocabulary
Decode_inserting(toks) ==
    /\ HasInstance
    /\ op' = "decode"
    /\ arg' = toks
    /\ LET result == decode(vocab, toks)
       IN /\ outcome' = result.outcome
          /\ ret' = result.ret
          /\ vocab' = IF result.outcome = "KeyError"
                      THEN Some(VocabPut(vocab[1],
                                         CHOOSE t \in Range(toks) : t \notin VocabKeys(vocab[1]),
                                         <<>>))
                      ELSE vocab
    /\ UNCHANGED <<pc, trainVars, merges, fsVars>>

Decode(toks) ==
    /\ HasInstance
    /\ op' = "decode"
    /\ arg' = toks
    /\ LET result == decode(vocab, toks)
       IN /\ outcome' = result.outcome
          /\ ret' = result.ret
    /\ UNCHANGED <<pc, trainVars, vocab, merges, fsVars>>

\* ------------------------------------------------------------- persistence
Save ==
    /\ HasInstance
    /\ op' = "save"
    /\ arg' = <<>>
    /\ ret' = <<>>
    /\ LET result == save(vocab, merges, dir_exists, file)
       IN /\ outcome' = result.outcome
          /\ dir_exists' = result.dir_exists
          /\ file' = result.file
    /\ UNCHANGED <<pc, trainVars, vocab, merges>>

Load ==
    /\ pc # "training"
    /\ op' = "load"
    /\ arg' = <<>>
    /\ IF file.kind = "absent"
       THEN /\ outcome' = "FileNotFoundError"
            /\ ret' = <<>>
            /\ UNCHANGED <<pc, trainVars, vocab, merges>>
       ELSE IF file.kind = "garbage"
       THEN /\ outcome' = "UnpicklingError"
            /\ ret' = <<>>
            /\ UNCHANGED <<pc, trainVars, vocab, merges>>
       ELSE LET state == PickleLoad(file)
            IN /\ outcome' = "ok"
               /\ vocab' = Some(state.vocab)
               /\ merges' = Some(state.merges)
               /\ ret' = Some("tokenizer")
               /\ pc' = "loaded"
               /\ corpus' = <<>>
               /\ max_vocab_size' = 0
               /\ num_merges' = 0
               /\ tokens' = <<>>
               /\ ids' = <<>>
               /\ i' = 0
    /\ UNCHANGED fsVars

Next ==
    \/ \E text \in Corpora, V \in VocabSizes, s \in SampleSizes : Construct(text, V, s)
    \/ TrainIter
    \/ TrainEnd
    \/ NewTokenizer
    \/ \E text \in Texts : Encode(text)
    \/ \E toks \in TokenInputs : Decode(toks)
    \/ Save
    \/ Load

Spec == Init /\ [][Next]_vars

\* ------------------------------------------------ merge called on its own
MaxIdsLen == 4
MergeTokens == {97, 98, 256}
MergeIds == SeqsUpTo(MergeTokens, MaxIdsLen)
MergePairs == {<<97, 97>>, <<97, 98>>}
MergeIdxs == {97, 256}

\* a tokenizer constructed without a corpus
MergeInit ==
    /\ pc = "untrained"
    /\ corpus = <<>> /\ max_vocab_size = 0 /\ num_merges = 0
    /\ tokens = <<>> /\ ids = <<>> /\ i = 0
    /\ vocab = None /\ merges = None
    /\ dir_exists = FALSE /\ file = FileAbsent
    /\ op = "none" /\ arg = <<>> /\ outcome = "ok" /\ ret = <<>>

\* tokenizer.merge(ids, pair, idx)
MergeCall(ids_in, pair, idx) ==
    /\ HasInstance
    /\ op' = "merge"
    /\ arg' = <<ids_in, pair, idx>>
    /\ outcome' = "ok"
    /\ ret' = Some(merge(ids_in, pair, idx))
    /\ UNCHANGED <<pc, trainVars, vocab, merges, fsVars>>

MergeNext ==
    \E ids_in \in MergeIds, pair \in MergePairs, idx \in MergeIdxs :
        MergeCall(ids_in, pair, idx)

SpecMerge == MergeInit /\ [][MergeNext]_vars

\* ------------------------------------------------------------ properties
\* the error kinds of the specification as the exceptions the code raises
UnknownTokenId == "KeyError"
UntrainedState == "ValueError"

\* train_bpe has run to its end, normally or with an exception
TrainOver == op = "train" /\ pc \in {"trained", "failed"}

\* the tokenizer state built by train_bpe, while it runs and after
InTraining == pc \in {"training", "trained", "failed"}

\* C1: for a tokenizer produced by train_bpe with max_vocab_size >= 256 and
\* every text t, every id encode(t) returns is a key of the vocabulary, the
\* byte expansions of these ids joined are the UTF-8 bytes of t, and
\* decode(encode(t)) = t.
C1_RoundTrip ==
    (pc = "trained" /\ max_vocab_size >= BaseVocabSize /\ op = "encode") =>
        /\ outcome = "ok"
        /\ \A k \in DOMAIN ret[1] : ret[1][k] \in VocabKeys(vocab[1])
        /\ JoinBytes(vocab[1], ret[1]) = Utf8Encode(arg)
        /\ decode(vocab, ret[1]) = [outcome |-> "ok", ret |-> Some(arg)]

\* a text with a three-byte character was encoded into fewer ids than it
\* has bytes, one of them of a pair of merged ids
C1_Witness ==
    /\ pc = "trained" /\ max_vocab_size >= BaseVocabSize /\ op = "encode"
    /\ outcome = "ok"
    /\ 2565 \in Range(arg)
    /\ Len(ret[1]) < Len(Utf8Encode(arg))
    /\ \E k \in DOMAIN ret[1], m \in DOMAIN merges[1] :
          /\ merges[1][m][2] = ret[1][k]
          /\ merges[1][m][1][1] >= BaseVocabSize

\* C2: the k-th merge learned (k = 0, 1, ...) has id 256 + k, and after n
\* merges the ids >= 256 of the merge table and of the vocabulary are
\* exactly 256 .. 256 + n - 1.
C2_SequentialIds ==
    InTraining =>
        /\ \A k \in DOMAIN merges[1] : merges[1][k][2] = BaseVocabSize + (k - 1)
        /\ {id \in VocabKeys(vocab[1]) : id >= BaseVocabSize}
             = BaseVocabSize..(BaseVocabSize + Len(merges[1]) - 1)

\* the merges an unbounded training learns from ids before no pair is left
RECURSIVE MergesUntilNoPair(_, _)
MergesUntilNoPair(s, fresh) ==
    IF Len(s) < 2 THEN 0
    ELSE 1 + MergesUntilNoPair(merge(s, MaxPair(get_stats(s)), fresh), fresh + 1)

\* C3: after train_bpe with max_vocab_size = V >= 256 the vocabulary has at
\* most V entries, and exactly V unless the working sequence was left with
\* no adjacent pair (length < 2); the number of merges learned is the
\* smaller of V - 256 and the number of iterations before pairs ran out.
C3_VocabSizeBound ==
    (TrainOver /\ max_vocab_size >= BaseVocabSize) =>
        /\ VocabLen(vocab[1]) <= max_vocab_size
        /\ VocabLen(vocab[1]) < max_vocab_size => Len(ids) < 2
        /\ VocabLen(vocab[1]) = BaseVocabSize + Len(merges[1])
        /\ LET budget == max_vocab_size - BaseVocabSize
               runOut == MergesUntilNoPair(tokens, 1000)
           IN Len(merges[1]) = IF budget < runOut THEN budget ELSE runOut

\* training was stopped by the lack of pairs after it had learned merges,
\* short of the size asked for
C3_Witness ==
    /\ TrainOver /\ pc = "trained" /\ max_vocab_size >= BaseVocabSize
    /\ Len(merges[1]) >= 1
    /\ VocabLen(vocab[1]) < max_vocab_size

\* the invariant of the data model on a vocabulary and a merge table
VocabularyInvariant(v, m) ==
    /\ \A id \in 0..(BaseVocabSize - 1) : id \in VocabKeys(v) /\ VocabGet(v, id) = <<id>>
    /\ \A k \in DOMAIN m :
          LET left == m[k][1][1]
              right == m[k][1][2]
              id == m[k][2]
          IN /\ {left, right, id} \subseteq VocabKeys(v)
             /\ VocabGet(v, id) = VocabGet(v, left) \o VocabGet(v, right)

\* C4: at every step of training and at its end, vocabulary[id] is <<id>>
\* for id < 256, every merge (left, right) -> id has vocabulary[id] =
\* vocabulary[left] ++ vocabulary[right], left and right are keys of the
\* vocabulary before id is added, and a step of training changes and
\* removes no entry of the vocabulary.
C4_VocabularyInvariant ==
    /\ [](InTraining => VocabularyInvariant(vocab[1], merges[1]))
    /\ [][pc = "training" =>
            /\ \A id \in VocabKeys(vocab[1]) :
                  id \in VocabKeys(vocab'[1]) /\ VocabGet(vocab'[1], id) = VocabGet(vocab[1], id)
            /\ \A id \in (VocabKeys(vocab'[1])) \ (VocabKeys(vocab[1])) :
                  \E k \in DOMAIN merges'[1] :
                     /\ merges'[1][k][2] = id
                     /\ merges'[1][k][1][1] \in VocabKeys(vocab[1])
                     /\ merges'[1][k][1][2] \in VocabKeys(vocab[1])]_vars

\* training has learned a merge whose left element is itself a merged id
C4_Witness ==
    /\ pc = "training"
    /\ Len(merges[1]) >= 2
    /\ \E k \in DOMAIN merges[1] :
          /\ merges[1][k][1][1] >= BaseVocabSize
          /\ Len(VocabGet(vocab[1], merges[1][k][2])) >= 3

\* C5: the pair chosen in an iteration is no key of the merge table yet, so
\* every iteration adds an entry and overwrites none; distinct pairs have
\* distinct ids, and a merge learned earlier has a lower id than every
\* merge learned later.
C5_MergeTableOrder ==
    InTraining =>
        /\ Len(merges[1]) = i
        /\ (pc = "training" /\ LoopContinues)
              => ~DictHas(merges[1], MaxPair(get_stats(ids)))
        /\ \A j, k \in DOMAIN merges[1] :
              /\ j < k => merges[1][j][2] < merges[1][k][2]
              /\ j # k => merges[1][j][1] # merges[1][k][1]

\* three merges were learned, the last of a pair of merged ids
C5_Witness ==
    /\ pc = "trained"
    /\ Len(merges[1]) >= 3
    /\ merges[1][3][1][1] >= BaseVocabSize

\* C6: training with max_vocab_size < 256 fails (with InvalidConfig, a
\* name the code has no exception for, so that the formula asks for a
\* failure of any name): it returns no tokenizer state and so no
\* vocabulary larger than max_vocab_size.
C6_SmallVocabRejected ==
    (TrainOver /\ max_vocab_size < BaseVocabSize) =>
        /\ pc = "failed"
        /\ outcome # "ok"
        /\ ret = <<>>

\* C7: training on an empty corpus with max_vocab_size >= 256 completes
\* normally with the 256-entry base vocabulary and an empty merge table.
C7_EmptyCorpusTrains ==
    (TrainOver /\ corpus = <<>> /\ max_vocab_size >= BaseVocabSize) =>
        /\ pc = "trained"
        /\ outcome = "ok"
        /\ vocab = Some(BaseVocab)
        /\ merges = Some(<<>>)

\* C8: decode of a token list that holds, at any position, an id that is
\* no key of the vocabulary ends in the unknown-id error and returns no
\* text, and no decode changes the tokenizer state or the artifact.
C8_DecodeUnknownId ==
    /\ []((op = "decode" /\ vocab # None
             /\ \E k \in DOMAIN arg : arg[k] \notin VocabKeys(vocab[1]))
          => (outcome = UnknownTokenId /\ ret = <<>>))
    /\ [][(\E toks \in TokenInputs : Decode(toks))
            => UNCHANGED <<pc, vocab, merges, fsVars>>]_vars

\* decode was given 257 after a known id, 257 being an id never assigned
\* below the largest learned id
C8_Witness ==
    /\ pc = "trained" /\ op = "decode"
    /\ outcome = UnknownTokenId
    /\ Len(arg) >= 2
    /\ arg[1] \in VocabKeys(vocab[1])
    /\ arg[2] = 257
    /\ \E id \in VocabKeys(vocab[1]) : id > 257

\* C9: on an instance neither trained nor loaded, encode, decode and save
\* each fail with the untrained-state error and return nothing, save
\* writes no artifact and makes no directory, and the instance stays
\* untrained.
C9_Untrained ==
    /\ [](pc = "untrained" =>
            /\ vocab = None /\ merges = None
            /\ op \in {"encode", "decode", "save"}
                  => (outcome = UntrainedState /\ ret = <<>>))
    /\ [][(pc = "untrained"
             /\ \/ \E text \in Texts : Encode(text)
                \/ \E toks \in TokenInputs : Decode(toks)
                \/ Save)
            => (pc' = "untrained" /\ UNCHANGED <<vocab, merges, fsVars>>)]_vars

\* save was refused on an untrained instance where no directory is
C9_Witness ==
    /\ pc = "untrained" /\ op = "save"
    /\ outcome = UntrainedState
    /\ ~dir_exists
    /\ file = FileAbsent

\* C10: a tokenizer returned by load satisfies the invariant of the data
\* model; an artifact that violates it makes load fail.
C10_LoadValidates ==
    pc = "loaded" => VocabularyInvariant(vocab[1], merges[1])

\* C11: a load that follows a successful save at the same location succeeds
\* and returns a tokenizer whose vocabulary and merge table equal those of
\* the tokenizer that was saved, so that encode and decode give the same
\* results on every input, with no training of the loaded tokenizer.
C11_SaveLoadRoundTrip ==
    [][(op = "save" /\ outcome = "ok" /\ op' = "load") =>
          /\ outcome' = "ok"
          /\ pc' = "loaded"
          /\ vocab' = vocab
          /\ merges' = merges
          /\ \A text \in Texts :
                 encode(vocab', merges', text) = encode(vocab, merges, text)
          /\ \A toks \in TokenInputs :
                 decode(vocab', toks) = decode(vocab, toks)]_vars

\* a tokenizer with two learned merges has been loaded from the artifact
\* that save wrote
C11_Witness ==
    /\ pc = "loaded" /\ op = "load" /\ outcome = "ok"
    /\ Len(merges[1]) >= 2
    /\ VocabLen(vocab[1]) = BaseVocabSize + Len(merges[1])
    /\ file = PickleDump(vocab[1], merges[1])

\* the positions of the working sequence s at which pair p occurs
Occurrences(s, p) ==
    {k \in 1..(Len(s) - 1) : <<s[k], s[k + 1]>> = p}

AdjacentPairs(s) ==
    {<<s[k], s[k + 1]>> : k \in 1..(Len(s) - 1)}

\* p has maximum count in s, and every other pair of maximum count occurs
\* first to the right of the first occurrence of p
IsLeftmostMax(s, p) ==
    /\ p \in AdjacentPairs(s)
    /\ \A q \in AdjacentPairs(s) :
          /\ Cardinality(Occurrences(s, q)) <= Cardinality(Occurrences(s, p))
          /\ (q # p /\ Cardinality(Occurrences(s, q)) = Cardinality(Occurrences(s, p)))
                => Min(Occurrences(s, p)) < Min(Occurrences(s, q))

\* the working sequence after the first k merges of the merge table
RECURSIVE Replayed(_)
Replayed(k) ==
    IF k = 0 THEN tokens
    ELSE merge(Replayed(k - 1), merges[1][k][1], merges[1][k][2])

\* C12: the k-th merge learned is the one pair of the working sequence of
\* maximum count whose first occurrence is leftmost among the pairs of
\* maximum count, so that the merge table is a function of the training
\* text and the working sequence is the text with these merges applied.
C12_LeftmostMaxPair ==
    (InTraining /\ op = "train" /\ pc # "failed") =>
        /\ \A k \in 1..Len(merges[1]) :
              /\ IsLeftmostMax(Replayed(k - 1), merges[1][k][1])
              /\ \A q \in AdjacentPairs(Replayed(k - 1)) :
                    IsLeftmostMax(Replayed(k - 1), q) => q = merges[1][k][1]
        /\ ids = Replayed(Len(merges[1]))

\* training is over with a merge that was chosen among pairs tied for the
\* maximum count
C12_Witness ==
    /\ TrainOver /\ pc = "trained"
    /\ \E k \in 1..Len(merges[1]) :
          \E q \in AdjacentPairs(Replayed(k - 1)) :
             /\ q # merges[1][k][1]
             /\ Cardinality(Occurrences(Replayed(k - 1), q))
                   = Cardinality(Occurrences(Replayed(k - 1), merges[1][k][1]))

\* the adjacent pairs of s that are keys of the merge table m
Candidates(s, m) ==
    {p \in AdjacentPairs(s) : DictHas(m, p)}

\* C13: every iteration of encode replaces a pair of lowest merge id among
\* the adjacent pairs of the current sequence that are keys of the merge
\* table, encode goes on as long as there is such a pair, the sequence it
\* returns has none, and a text of at most one byte is returned as its bytes.
C13_LowestIdFirst ==
    (op = "encode" /\ outcome = "ok") =>
        LET m == merges[1]
            tr == EncodeTrace(m, Utf8Encode(arg))
        IN /\ tr[1] = Utf8Encode(arg)
           /\ ret = Some(tr[Len(tr)])
           /\ \A k \in 1..(Len(tr) - 1) :
                 \E p \in Candidates(tr[k], m) :
                    /\ \A q \in Candidates(tr[k], m) : DictGet(m, p) <= DictGet(m, q)
                    /\ tr[k + 1] = merge(tr[k], p, DictGet(m, p))
           /\ Candidates(ret[1], m) = {}
           /\ Len(Utf8Encode(arg)) <= 1 => ret[1] = Utf8Encode(arg)

\* encode has applied a pair that occurs less often in the current sequence
\* than another pair of the merge table, and that is not the leftmost one
C13_Witness ==
    /\ op = "encode" /\ outcome = "ok"
    /\ LET m == merges[1]
           tr == EncodeTrace(m, Utf8Encode(arg))
       IN \E k \in 1..(Len(tr) - 1) :
             \E p, q \in Candidates(tr[k], m) :
                /\ tr[k + 1] = merge(tr[k], p, DictGet(m, p))
                /\ Cardinality(Occurrences(tr[k], p)) < Cardinality(Occurrences(tr[k], q))
                /\ Min(Occurrences(tr[k], q)) < Min(Occurrences(tr[k], p))

\* the positions at which merge replaces pair p in s: the occurrences of p
\* that do not start at the second element of a replaced occurrence
Replaced(s, p) ==
    CHOOSE R \in SUBSET Occurrences(s, p) :
        \A k \in Occurrences(s, p) : k \in R <=> (k - 1) \notin R

\* the positions of s that merge does not drop, in ascending order
Kept(s, p) ==
    SortedSeq((1..Len(s)) \ {k + 1 : k \in Replaced(s, p)})

\* C14: merge replaces the leftmost non-overlapping occurrences of pair by
\* idx and goes on after the two elements of each; the other elements keep
\* their value and order, the result is shorter than the input by the
\* number of replacements, and when both elements of pair differ from idx
\* no adjacent occurrence of pair is left in the result.
C14_MergePass ==
    op = "merge" =>
        LET s == arg[1]
            p == arg[2]
            idx == arg[3]
            out == ret[1]
            kept == Kept(s, p)
        IN /\ Len(out) = Len(s) - Cardinality(Replaced(s, p))
           /\ Len(out) = Len(kept)
           /\ \A j \in 1..Len(out) :
                 out[j] = IF kept[j] \in Replaced(s, p) THEN idx ELSE s[kept[j]]
           /\ (p[1] # idx /\ p[2] # idx) => Occurrences(out, p) = {}
           /\ (s = <<p[1], p[1], p[1]>> /\ p[2] = p[1]) => out = <<idx, p[1]>>

\* merge was called with pair (a, a) on a a a and returned idx a
C14_Witness ==
    /\ op = "merge"
    /\ arg = << <<97, 97, 97>>, <<97, 97>>, 256 >>
    /\ ret = Some(<<256, 97>>)

\* C15: encode of the text a tokenizer was trained on applies the learned
\* merges one by one in the order of the merge table and returns the working
\* sequence training ended with.
C15_EncodeReplaysTraining ==
    (pc = "trained" /\ max_vocab_size >= BaseVocabSize
        /\ op = "encode" /\ Utf8Encode(arg) = tokens) =>
        LET tr == EncodeTrace(merges[1], tokens)
        IN /\ outcome = "ok"
           /\ ret = Some(ids)
           /\ Len(tr) = Len(merges[1]) + 1
           /\ \A k \in 1..Len(merges[1]) :
                 tr[k + 1] = merge(tr[k], merges[1][k][1], merges[1][k][2])

\* the text of a training that learned three merges was encoded
C15_Witness ==
    /\ pc = "trained" /\ max_vocab_size >= BaseVocabSize
    /\ op = "encode" /\ Utf8Encode(arg) = tokens
    /\ Len(merges[1]) = MaxMerges
    /\ ret = Some(ids)
    /\ Len(ids) < Len(tokens)

\* training or load has returned a tokenizer
Ready == pc \in {"trained", "loaded"}

\* C16: on a tokenizer that training or load has returned, encode, decode
\* and save, whether they return or raise, leave the vocabulary and the
\* merge table as they are, and encode called twice in a row on the same text
\* returns the same ids.
C16_NoMutation ==
    [][(Ready /\ op' \in {"encode", "decode", "save"}) =>
          /\ pc' = pc
          /\ vocab' = vocab
          /\ merges' = merges
          /\ (op = "encode" /\ op' = "encode" /\ arg' = arg) =>
                (ret' = ret /\ outcome' = outcome)]_vars

\* a decode on a loaded tokenizer with merges has raised KeyError
C16_Witness ==
    /\ pc = "loaded" /\ op = "decode"
    /\ outcome = UnknownTokenId
    /\ merges[1] # <<>>
    /\ VocabLen(vocab[1]) > BaseVocabSize

\* C17: every iteration of the loop of encode that goes on leaves a token
\* sequence shorter by at least one element, whatever the merge table, so
\* that a text of n bytes is encoded in at most n - 1 iterations.
C17_EncodeTerminates ==
    (op = "encode" /\ outcome = "ok") =>
        LET tr == EncodeTrace(merges[1], Utf8Encode(arg))
            n == Len(Utf8Encode(arg))
        IN /\ \A k \in 1..(Len(tr) - 1) : Len(tr[k + 1]) <= Len(tr[k]) - 1
           /\ Len(tr) - 1 <= IF n = 0 THEN 0 ELSE n - 1
           /\ ret = Some(tr[Len(tr)])

\* a loaded table that was not learned by training was used for two
\* iterations of encode
C17_Witness ==
    /\ pc = "loaded" /\ op = "encode" /\ outcome = "ok"
    /\ file = ForeignArtifact
    /\ Len(EncodeTrace(merges[1], Utf8Encode(arg))) = 3
    /\ Len(ret[1]) = Len(Utf8Encode(arg)) - 2

====
